---- MODULE Spec2Model ----
(***************************************************************************)
(* A model of the sp_arena bump allocator (src/sp_arena.c, src/spar.h).    *)
(*                                                                         *)
(* A block "pointer" is the index of the block in `blocks` (0 is NULL).    *)
(* A data pointer is an integer address: block.memory + offset.  size_t    *)
(* values are kept modulo 2^SizeBits, so that every addition and           *)
(* subtraction of the source wraps as it does in C.                        *)
(***************************************************************************)
EXTENDS Integers, Sequences, FiniteSets, TLC

VARIABLES
    arena,      \* struct sp_arena: first, current, total_allocated, total_used, config, last_err
    blocks,     \* the sp_arena_block records acquired so far, by block index
    temps,      \* the sp_arena_temp values the caller holds, innermost last
    live,       \* the allocations the caller still considers live: ptr, size, depth
    call,       \* the last public call and its arguments
    result,     \* what the last public call returned
    pre,        \* arena and blocks as they were when the last call was entered
    snaps,      \* per open checkpoint, what the arena looked like at sp_arena_temp_begin
    first_alloc,\* the first allocation ever returned by this arena: ptr and size (or NoAlloc)
    resized,    \* whether sp_arena_resize has been called on this arena
    ops,        \* number of public calls made so far
    scn,        \* the allocations a scripted scenario has been handed, in order
    freed,      \* what has been passed to config.deallocator, in order (lifetime specification)
    mutex,      \* arena->mutex: the thread that holds it, or Unlocked
    pc,         \* per thread: where it stands inside the call it is making
    frame       \* per thread: the arguments and locals of that call

seqvars == <<temps, call, result, pre, snaps, first_alloc, resized, scn, freed>>
tsvars == <<mutex, pc, frame>>
vars == <<arena, blocks, live, ops, seqvars, tsvars>>

---------------------------------------------------------------------------
(* Bounds of the model *)

SizeBits == 20          \* width of size_t in the model
MaxOps == 4             \* public calls per behaviour of the sequential specification
MaxCalls == 3           \* public calls per behaviour of the threaded specification
MaxBlocks == 3          \* blocks the allocate capability will supply before it is exhausted

(* Program constants *)

NULL == 0
PageSize == 4096
DefaultBlockSize == 65536
DefaultAlignment == 8
MallocAlignment == 16

SizeMod == 2 ^ SizeBits
SIZE_MAX == SizeMod - 1

ERR_NONE == "SP_ARENA_ERR_NONE"
ERR_OUT_OF_MEMORY == "SP_ARENA_ERR_OUT_OF_MEMORY"
ERR_INVALID_ALIGNMENT == "SP_ARENA_ERR_INVALID_ALIGNMENT"
ERR_INVALID_SIZE == "SP_ARENA_ERR_INVALID_SIZE"
ERR_INVALID_ARENA == "SP_ARENA_ERR_INVALID_ARENA"

---------------------------------------------------------------------------
(* size_t arithmetic *)

Add(x, y) == (x + y) % SizeMod
Sub(x, y) == (x - y) % SizeMod

PowersOfTwo == {2 ^ k : k \in 0..(SizeBits - 1)}

\* a slip: only the test for zero is made
is_power_of_two_nonzero(n) == n # 0

\* n != 0 && (n & (n - 1)) == 0
is_power_of_two(n) == n # 0 /\ n \in PowersOfTwo

\* a slip: the mask applied without first adding it, which rounds down
align_forward_rounds_down(ptr, align) == ptr - (ptr % align)

\* (ptr + mask) & ~mask for a power-of-two align: the wrapped sum with its low bits cleared
align_forward(ptr, align) ==
    LET mask == align - 1
        sum == Add(ptr, mask)
    IN  sum - (sum % align)

---------------------------------------------------------------------------
(* The allocate capability.  Each block buffer comes from a region of its  *)
(* own; inside it the base address is any address malloc may return.       *)

SlotSpan == 4 * SizeMod
BaseOffsets == {MallocAlignment, 4 * MallocAlignment}
SlotBase(n) == n * SlotSpan

\* what allocator(block_size) may return for the n-th buffer: NULL or a base address
AllocatorResults(n) ==
    IF n > MaxBlocks THEN {NULL}
    ELSE {NULL} \cup {SlotBase(n) + off : off \in BaseOffsets}

---------------------------------------------------------------------------
(* sp_arena_create_block *)

BlockSizeFor(a, min_size) ==
    IF min_size > a.config.block_size
    THEN align_forward(min_size, PageSize)
    ELSE a.config.block_size

\* a slip: the size is added to total_allocated as soon as the buffer is there
sp_arena_create_block_counts_early(a, bs, min_size, memory, rec) ==
    LET block_size == BlockSizeFor(a, min_size)
        counted == [a EXCEPT !.total_allocated = Add(@, block_size)]
    IN  IF memory = NULL
        THEN [a |-> [a EXCEPT !.last_err = ERR_OUT_OF_MEMORY], bs |-> bs, block |-> NULL]
        ELSE IF ~rec
        THEN [a |-> [counted EXCEPT !.last_err = ERR_OUT_OF_MEMORY], bs |-> bs, block |-> NULL]
        ELSE [a |-> counted,
              bs |-> Append(bs, [memory |-> memory, next |-> NULL,
                                 size |-> block_size, used |-> 0]),
              block |-> Len(bs) + 1]

\* memory: what allocator(block_size) returned; rec: whether allocator(sizeof(*block)) succeeded
sp_arena_create_block(a, bs, min_size, memory, rec) ==
    LET block_size == BlockSizeFor(a, min_size)
    IN  IF memory = NULL \/ ~rec
        THEN [a |-> [a EXCEPT !.last_err = ERR_OUT_OF_MEMORY], bs |-> bs, block |-> NULL]
        ELSE [a |-> [a EXCEPT !.total_allocated = Add(@, block_size)],
              bs |-> Append(bs, [memory |-> memory, next |-> NULL,
                                 size |-> block_size, used |-> 0]),
              block |-> Len(bs) + 1]

---------------------------------------------------------------------------
(* sp_arena_create_with_config *)

\* a capability is named; NoCapability is the null function pointer
NoCapability == "null"

\* a configuration that leaves both capabilities unset
Config(block_size, alignment, fixed_size) ==
    [block_size |-> block_size, alignment |-> alignment, fixed_size |-> fixed_size,
     allocator |-> NoCapability, deallocator |-> NoCapability]

ConfigWith(config, allocator, deallocator) ==
    [config EXCEPT !.allocator = allocator, !.deallocator = deallocator]

SP_ARENA_DEFAULT_CONFIG ==
    ConfigWith(Config(DefaultBlockSize, DefaultAlignment, FALSE), "malloc", "free")

\* a slip: the test of block_size is left out
ConfigValid_ignores_block_size(config) ==
    /\ ~(config.alignment = 0 \/ ~is_power_of_two(config.alignment))
    /\ ~(\/ config.allocator # NoCapability /\ config.deallocator = NoCapability
         \/ config.allocator = NoCapability /\ config.deallocator # NoCapability)

ConfigValid(config) ==
    /\ ~(config.alignment = 0 \/ ~is_power_of_two(config.alignment))
    /\ config.block_size # 0
    /\ ~(\/ config.allocator # NoCapability /\ config.deallocator = NoCapability
         \/ config.allocator = NoCapability /\ config.deallocator # NoCapability)

\* if (config.allocator == NULL) { config.allocator = malloc; config.deallocator = free; }
WithDefaultCapabilities(config) ==
    IF config.allocator = NoCapability
    THEN ConfigWith(config, "malloc", "free")
    ELSE config

\* the arena after memset and arena->config = config, before the first block
ZeroArena(config) ==
    [first |-> NULL, current |-> NULL, total_allocated |-> 0, total_used |-> 0,
     config |-> config, last_err |-> ERR_NONE]

sp_arena_create_with_config(config, memory, rec) ==
    LET zero == ZeroArena(WithDefaultCapabilities(config))
        made == sp_arena_create_block(zero, <<>>, 0, memory, rec)
    IN  IF ~ConfigValid(config) \/ made.block = NULL
        THEN [ok |-> FALSE, a |-> ZeroArena(config), bs |-> <<>>]
        ELSE [ok |-> TRUE,
              a |-> [made.a EXCEPT !.first = made.block, !.current = made.block],
              bs |-> made.bs]

---------------------------------------------------------------------------
(* sp_arena_alloc_internal *)

\* a slip: the scan walks with the cursor itself, which is null when no block was found
RECURSIVE ScanNext_walks_cursor(_, _, _, _, _)
ScanNext_walks_cursor(a, bs, next_block, size, alignment) ==
    IF next_block = NULL
    THEN [found |-> FALSE, a |-> [a EXCEPT !.current = NULL], bs |-> bs, result |-> NULL]
    ELSE LET aligned_used == align_forward(bs[next_block].used, alignment)
             padding == Sub(aligned_used, bs[next_block].used)
         IN  IF Add(aligned_used, size) <= bs[next_block].size
             THEN [found |-> TRUE,
                   a |-> [a EXCEPT !.current = next_block,
                                   !.total_used = Add(@, Add(size, padding))],
                   bs |-> [bs EXCEPT ![next_block].used = Add(aligned_used, size)],
                   result |-> bs[next_block].memory + aligned_used]
             ELSE ScanNext_walks_cursor(a, [bs EXCEPT ![next_block].used = 0],
                                        bs[next_block].next, size, alignment)

\* a slip: a block found by the scan is carved from its start, whatever its used offset
RECURSIVE ScanNext_carves_at_zero(_, _, _, _, _)
ScanNext_carves_at_zero(a, bs, next_block, size, alignment) ==
    IF next_block = NULL
    THEN [found |-> FALSE, a |-> a, bs |-> bs, result |-> NULL]
    ELSE LET aligned_used == align_forward(bs[next_block].used, alignment)
         IN  IF Add(aligned_used, size) <= bs[next_block].size
             THEN [found |-> TRUE,
                   a |-> [a EXCEPT !.current = next_block, !.total_used = Add(@, size)],
                   bs |-> [bs EXCEPT ![next_block].used = size],
                   result |-> bs[next_block].memory]
             ELSE ScanNext_carves_at_zero(a, [bs EXCEPT ![next_block].used = 0],
                                          bs[next_block].next, size, alignment)

\* the loop over the blocks after the current one
RECURSIVE ScanNext(_, _, _, _, _)
ScanNext(a, bs, next_block, size, alignment) ==
    IF next_block = NULL
    THEN [found |-> FALSE, a |-> a, bs |-> bs, result |-> NULL]
    ELSE LET aligned_used == align_forward(bs[next_block].used, alignment)
             padding == Sub(aligned_used, bs[next_block].used)
         IN  IF Add(aligned_used, size) <= bs[next_block].size
             THEN [found |-> TRUE,
                   a |-> [a EXCEPT !.current = next_block,
                                   !.total_used = Add(@, Add(size, padding))],
                   bs |-> [bs EXCEPT ![next_block].used = Add(aligned_used, size)],
                   result |-> bs[next_block].memory + aligned_used]
             ELSE ScanNext(a, [bs EXCEPT ![next_block].used = 0],
                           bs[next_block].next, size, alignment)

\* a slip: a success on this path resets the recorded error
AllocFromNewBlock_clears_error(a, bs, block, size, memory, rec) ==
    LET made == sp_arena_create_block(a, bs, size, memory, rec)
        new_block == made.block
    IN  IF new_block = NULL
        THEN [a |-> [made.a EXCEPT !.last_err = ERR_OUT_OF_MEMORY],
              bs |-> made.bs, result |-> NULL]
        ELSE [a |-> [made.a EXCEPT !.current = new_block, !.total_used = Add(@, size),
                                   !.last_err = ERR_NONE],
              bs |-> [made.bs EXCEPT ![new_block].next = made.bs[block].next,
                                     ![block].next = new_block,
                                     ![new_block].used = size],
              result |-> made.bs[new_block].memory]

\* a slip: the blocks that followed the current one are not linked behind the new block
AllocFromNewBlock_drops_tail(a, bs, block, size, memory, rec) ==
    LET made == sp_arena_create_block(a, bs, size, memory, rec)
        new_block == made.block
    IN  IF new_block = NULL
        THEN [a |-> [made.a EXCEPT !.last_err = ERR_OUT_OF_MEMORY],
              bs |-> made.bs, result |-> NULL]
        ELSE [a |-> [made.a EXCEPT !.current = new_block, !.total_used = Add(@, size)],
              bs |-> [made.bs EXCEPT ![block].next = new_block,
                                     ![new_block].used = size],
              result |-> made.bs[new_block].memory]

\* a slip: the cursor is not moved to the block just acquired
AllocFromNewBlock_keeps_current(a, bs, block, size, memory, rec) ==
    LET made == sp_arena_create_block(a, bs, size, memory, rec)
        new_block == made.block
    IN  IF new_block = NULL
        THEN [a |-> [made.a EXCEPT !.last_err = ERR_OUT_OF_MEMORY],
              bs |-> made.bs, result |-> NULL]
        ELSE [a |-> [made.a EXCEPT !.total_used = Add(@, size)],
              bs |-> [made.bs EXCEPT ![new_block].next = made.bs[block].next,
                                     ![block].next = new_block,
                                     ![new_block].used = size],
              result |-> made.bs[new_block].memory]

\* the tail of sp_arena_alloc_internal: acquire a block, link it after `block`, carve from it
AllocFromNewBlock(a, bs, block, size, memory, rec) ==
    LET made == sp_arena_create_block(a, bs, size, memory, rec)
        new_block == made.block
    IN  IF new_block = NULL
        THEN [a |-> [made.a EXCEPT !.last_err = ERR_OUT_OF_MEMORY],
              bs |-> made.bs, result |-> NULL]
        ELSE [a |-> [made.a EXCEPT !.current = new_block, !.total_used = Add(@, size)],
              bs |-> [made.bs EXCEPT ![new_block].next = made.bs[block].next,
                                     ![block].next = new_block,
                                     ![new_block].used = size],
              result |-> made.bs[new_block].memory]

sp_arena_alloc_internal(a, bs, size, alignment, memory, rec) ==
    IF a.current = NULL \/ size = 0
    THEN [a |-> [a EXCEPT !.last_err = IF size = 0 THEN ERR_INVALID_SIZE
                                       ELSE ERR_INVALID_ARENA],
          bs |-> bs, result |-> NULL]
    ELSE IF ~is_power_of_two(alignment)
    THEN [a |-> [a EXCEPT !.last_err = ERR_INVALID_ALIGNMENT], bs |-> bs, result |-> NULL]
    ELSE
    LET block == a.current
        aligned_used == align_forward(bs[block].used, alignment)
        padding == Sub(aligned_used, bs[block].used)
        req_size == Add(size, padding)
    IN  IF Add(aligned_used, size) <= bs[block].size
        THEN [a |-> [a EXCEPT !.total_used = Add(@, req_size)],
              bs |-> [bs EXCEPT ![block].used = Add(aligned_used, size)],
              result |-> bs[block].memory + aligned_used]
        ELSE IF a.config.fixed_size
        THEN [a |-> [a EXCEPT !.last_err = ERR_OUT_OF_MEMORY], bs |-> bs, result |-> NULL]
        ELSE LET scan == ScanNext(a, bs, bs[block].next, size, alignment)
             IN  IF scan.found
                 THEN [a |-> scan.a, bs |-> scan.bs, result |-> scan.result]
                 ELSE AllocFromNewBlock(scan.a, scan.bs, block, size, memory, rec)

\* whether a call with this state and these arguments reaches sp_arena_create_block
NeedsNewBlock(a, bs, size, alignment) ==
    /\ a.current # NULL /\ size # 0 /\ is_power_of_two(alignment)
    /\ ~(Add(align_forward(bs[a.current].used, alignment), size) <= bs[a.current].size)
    /\ ~a.config.fixed_size
    /\ ~ScanNext(a, bs, bs[a.current].next, size, alignment).found

sp_arena_alloc(a, bs, size, memory, rec) ==
    sp_arena_alloc_internal(a, bs, size, a.config.alignment, memory, rec)

sp_arena_alloc_aligned(a, bs, size, alignment, memory, rec) ==
    sp_arena_alloc_internal(a, bs, size, alignment, memory, rec)

---------------------------------------------------------------------------
(* sp_arena_resize *)

\* which branch of sp_arena_resize a call takes
ResizePath(a, bs, old_ptr, old_size, new_size) ==
    IF old_ptr = NULL \/ old_size = 0 \/ new_size = 0 THEN "invalid_size"
    ELSE IF a.current = NULL THEN "invalid_arena"
    ELSE LET block == a.current
             block_end == bs[block].memory + bs[block].used - old_size
             additional == Sub(new_size, old_size)
         IN  IF old_ptr # block_end THEN "copy"
             ELSE IF new_size > old_size /\ Add(bs[block].used, additional) > bs[block].size
                  THEN IF a.config.fixed_size THEN "out_of_memory" ELSE "move"
                  ELSE "in_place"

\* a slip: the arena's counter is not adjusted
ResizeInPlace_forgets_total(a, bs, block, old_size, new_size) ==
    [a |-> a, bs |-> [bs EXCEPT ![block].used = Add(Sub(@, old_size), new_size)]]

\* block->used = block->used - old_size + new_size, and the same for total_used
ResizeInPlace(a, bs, block, old_size, new_size) ==
    [a |-> [a EXCEPT !.total_used = Add(Sub(@, old_size), new_size)],
     bs |-> [bs EXCEPT ![block].used = Add(Sub(@, old_size), new_size)]]

\* block->used -= old_size; arena->total_used -= old_size, after the data has moved
ResizeReclaim(a, bs, block, old_size) ==
    [a |-> [a EXCEPT !.total_used = Sub(@, old_size)],
     bs |-> [bs EXCEPT ![block].used = Sub(@, old_size)]]

\* the whole call, as built without the lock (SP_ARENA_THREAD_SAFE = 0)
sp_arena_resize(a, bs, old_ptr, old_size, new_size, memory, rec) ==
    LET path == ResizePath(a, bs, old_ptr, old_size, new_size)
        block == a.current
        fresh == sp_arena_alloc(a, bs, new_size, memory, rec)
    IN  CASE path = "invalid_size" ->
                 [a |-> [a EXCEPT !.last_err = ERR_INVALID_SIZE], bs |-> bs, result |-> NULL]
          [] path = "invalid_arena" ->
                 [a |-> [a EXCEPT !.last_err = ERR_INVALID_ARENA], bs |-> bs, result |-> NULL]
          [] path = "copy" -> fresh
          [] path = "out_of_memory" ->
                 [a |-> [a EXCEPT !.last_err = ERR_OUT_OF_MEMORY], bs |-> bs, result |-> NULL]
          [] path = "move" ->
                 IF fresh.result # NULL
                 THEN LET back == ResizeReclaim(fresh.a, fresh.bs, block, old_size)
                      IN  [a |-> back.a, bs |-> back.bs, result |-> fresh.result]
                 ELSE fresh
          [] OTHER ->
                 LET here == ResizeInPlace(a, bs, block, old_size, new_size)
                 IN  [a |-> here.a, bs |-> here.bs, result |-> old_ptr]

\* whether this resize reaches sp_arena_create_block through its nested sp_arena_alloc
ResizeNeedsNewBlock(a, bs, old_ptr, old_size, new_size) ==
    /\ ResizePath(a, bs, old_ptr, old_size, new_size) \in {"copy", "move"}
    /\ NeedsNewBlock(a, bs, new_size, a.config.alignment)

---------------------------------------------------------------------------
(* sp_arena_temp_begin, sp_arena_temp_end, sp_arena_clear *)

sp_arena_temp_begin(a, bs) ==
    IF a.current = NULL
    THEN [block |-> NULL, used |-> 0, total_used |-> 0]
    ELSE [block |-> a.current, used |-> bs[a.current].used, total_used |-> a.total_used]

\* a slip: the block's used offset is not put back
sp_arena_temp_end_keeps_used(a, bs, temp) ==
    IF temp.block = NULL
    THEN [a |-> a, bs |-> bs]
    ELSE [a |-> [a EXCEPT !.current = temp.block, !.total_used = temp.total_used],
          bs |-> bs]

\* a slip: the blocks acquired after the checkpoint's block are reset as well
sp_arena_temp_end_resets_later(a, bs, temp) ==
    IF temp.block = NULL
    THEN [a |-> a, bs |-> bs]
    ELSE [a |-> [a EXCEPT !.current = temp.block, !.total_used = temp.total_used],
          bs |-> [b \in DOMAIN bs |->
                      IF b = temp.block THEN [bs[b] EXCEPT !.used = temp.used]
                      ELSE IF b > temp.block THEN [bs[b] EXCEPT !.used = 0]
                      ELSE bs[b]]]

sp_arena_temp_end(a, bs, temp) ==
    IF temp.block = NULL
    THEN [a |-> a, bs |-> bs]
    ELSE [a |-> [a EXCEPT !.current = temp.block, !.total_used = temp.total_used],
          bs |-> [bs EXCEPT ![temp.block].used = temp.used]]

\* a slip: only the block the walk starts at is reset
ClearChain_first_only(bs, block) ==
    IF block = NULL THEN bs ELSE [bs EXCEPT ![block].used = 0]

\* the loop of sp_arena_clear over the chain that starts at `block`
RECURSIVE ClearChain(_, _)
ClearChain(bs, block) ==
    IF block = NULL THEN bs
    ELSE ClearChain([bs EXCEPT ![block].used = 0], bs[block].next)

\* a slip: the cursor is not moved back to the first block
sp_arena_clear_keeps_current(a, bs) ==
    [a |-> [a EXCEPT !.total_used = 0], bs |-> ClearChain(bs, a.first)]

sp_arena_clear(a, bs) ==
    [a |-> [a EXCEPT !.current = a.first, !.total_used = 0],
     bs |-> ClearChain(bs, a.first)]

---------------------------------------------------------------------------
(* sp_arena_destroy, and the one release made before it *)

Released(block, what) == [block |-> block, what |-> what]

\* sp_arena_create_block: deallocator(memory) when the block record could not be acquired;
\* the buffer never became a block
CreateBlockReleases(memory, rec) ==
    IF memory # NULL /\ ~rec THEN <<Released(NULL, "memory")>> ELSE <<>>

\* a slip: the walk stops after the first block
DestroyWalk_first_only(bs, block) ==
    IF block = NULL THEN <<>>
    ELSE <<Released(block, "memory"), Released(block, "record")>>

\* the loop of sp_arena_destroy: deallocator(block->memory); deallocator(block)
RECURSIVE DestroyWalk(_, _)
DestroyWalk(bs, block) ==
    IF block = NULL THEN <<>>
    ELSE <<Released(block, "memory"), Released(block, "record")>>
             \o DestroyWalk(bs, bs[block].next)

sp_arena_destroy(a, bs) ==
    [a |-> [a EXCEPT !.first = NULL, !.current = NULL,
                     !.total_allocated = 0, !.total_used = 0],
     released |-> DestroyWalk(bs, a.first)]

---------------------------------------------------------------------------
(* The callers' inputs *)

Huge == SIZE_MAX - 7
AllocSizes == {20, 40, 100, Huge}
AlignedSizes == {20}
Alignments == {64}
ResizeSizes == {20, 100, Huge}
Configs == {Config(64, DefaultAlignment, FALSE), Config(64, DefaultAlignment, TRUE)}

\* requests that sp_arena_alloc_internal refuses: <<size, alignment>>
InvalidRequests == {<<0, 24>>, <<20, 0>>, <<20, 24>>}

Threads == {1, 2}
Unlocked == 0

NoAlloc == [ptr |-> NULL, size |-> 0]
NoSnap == [current |-> NULL, used |-> 0, total_used |-> 0, total_allocated |-> 0]
NoCall == [op |-> "create", size |-> 0, alignment |-> 0, old_ptr |-> NULL, old_size |-> 0,
           snap |-> NoSnap, prev |-> "none"]
NoTemp == [block |-> NULL, used |-> 0, total_used |-> 0]
NoFrame == [op |-> "none", size |-> 0, alignment |-> 0, old_ptr |-> NULL, old_size |-> 0,
            block |-> NULL, path |-> "none", ret |-> NULL, seen |-> <<>>,
            temp |-> NoTemp, returns |-> "none", unlocks |-> 0]

\* what the two allocator calls of sp_arena_create_block may return for the next block
AllocatorOutcomes(bs) ==
    {<<m, r>> \in AllocatorResults(Len(bs) + 1) \X BOOLEAN : m = NULL => r}

\* when the call never reaches the allocate capability its outcome is not an input
OutcomesIf(needed, bs) == IF needed THEN AllocatorOutcomes(bs) ELSE {<<NULL, TRUE>>}

Called(op, size, alignment, old_ptr, old_size, snap) ==
    [op |-> op, size |-> size, alignment |-> alignment, old_ptr |-> old_ptr,
     old_size |-> old_size, snap |-> snap, prev |-> call.op]

Remove(seq, i) == SubSeq(seq, 1, i - 1) \o SubSeq(seq, i + 1, Len(seq))

Allocation(ptr, size) == [ptr |-> ptr, size |-> size, depth |-> Len(temps)]

---------------------------------------------------------------------------
(* The state after construction *)

\* the caller holds the arena that a successful construction made, and nothing else
InitState(made) ==
    /\ arena = made.a
    /\ blocks = made.bs
    /\ temps = <<>>
    /\ live = <<>>
    /\ call = NoCall
    /\ result = NULL
    /\ pre = [a |-> made.a, bs |-> made.bs]
    /\ snaps = <<>>
    /\ first_alloc = NoAlloc
    /\ resized = FALSE
    /\ ops = 0
    /\ scn = <<>>
    /\ freed = <<>>
    /\ mutex = Unlocked
    /\ pc = [t \in Threads |-> "idle"]
    /\ frame = [t \in Threads |-> NoFrame]

InitWith(configs) ==
    \E config \in configs, memory \in AllocatorResults(1) \ {NULL} :
        InitState(sp_arena_create_with_config(config, memory, TRUE))

Init == InitWith(Configs)

---------------------------------------------------------------------------
(* The public calls, made one after another by a single caller *)

\* the bookkeeping every public call shares
Enter(c) ==
    /\ ops' = ops + 1
    /\ call' = c
    /\ pre' = [a |-> arena, bs |-> blocks]
    /\ UNCHANGED tsvars

Returned(r) ==
    /\ arena' = r.a
    /\ blocks' = r.bs
    /\ result' = r.result
    /\ live' = IF r.result # NULL
               THEN Append(live, Allocation(r.result, call'.size))
               ELSE live
    /\ first_alloc' = IF r.result # NULL /\ first_alloc = NoAlloc
                      THEN [ptr |-> r.result, size |-> call'.size]
                      ELSE first_alloc

\* sp_arena_alloc, sp_arena_calloc, sp_arena_strdup: the configured alignment
DoAllocWith(size, o) ==
    /\ Enter(Called("alloc", size, arena.config.alignment, NULL, 0, NoSnap))
    /\ Returned(sp_arena_alloc(arena, blocks, size, o[1], o[2]))
    /\ UNCHANGED <<temps, snaps, resized>>

DoAlloc(size) ==
    \E o \in OutcomesIf(NeedsNewBlock(arena, blocks, size, arena.config.alignment), blocks) :
        DoAllocWith(size, o)

DoAllocAligned(size, alignment) ==
    \E o \in OutcomesIf(NeedsNewBlock(arena, blocks, size, alignment), blocks) :
        /\ Enter(Called("alloc_aligned", size, alignment, NULL, 0, NoSnap))
        /\ Returned(sp_arena_alloc_aligned(arena, blocks, size, alignment, o[1], o[2]))
        /\ UNCHANGED <<temps, snaps, resized>>

\* sp_arena_resize of the i-th pointer the caller holds, with its true size
DoResizeWith(i, new_size, o) ==
    LET r == sp_arena_resize(arena, blocks, live[i].ptr, live[i].size, new_size, o[1], o[2])
    IN  /\ Enter(Called("resize", new_size, arena.config.alignment, live[i].ptr,
                        live[i].size, NoSnap))
        /\ arena' = r.a
        /\ blocks' = r.bs
        /\ result' = r.result
        /\ live' = IF r.result # NULL
                   THEN Append(Remove(live, i), Allocation(r.result, new_size))
                   ELSE live
        /\ resized' = TRUE
        /\ UNCHANGED <<temps, snaps, first_alloc>>

DoResize(i, new_size) ==
    \E o \in OutcomesIf(ResizeNeedsNewBlock(arena, blocks, live[i].ptr, live[i].size,
                                            new_size), blocks) :
        DoResizeWith(i, new_size, o)

DoTempBegin ==
    /\ Enter(Called("temp_begin", 0, 0, NULL, 0, NoSnap))
    /\ temps' = Append(temps, sp_arena_temp_begin(arena, blocks))
    /\ snaps' = Append(snaps, [current |-> arena.current,
                               used |-> blocks[arena.current].used,
                               total_used |-> arena.total_used,
                               total_allocated |-> arena.total_allocated])
    /\ result' = NULL
    /\ UNCHANGED <<arena, blocks, live, first_alloc, resized>>

\* sp_arena_temp_end of the innermost open checkpoint
DoTempEnd ==
    /\ temps # <<>>
    /\ Enter(Called("temp_end", 0, 0, NULL, 0, snaps[Len(snaps)]))
    /\ LET r == sp_arena_temp_end(arena, blocks, temps[Len(temps)])
       IN  /\ arena' = r.a
           /\ blocks' = r.bs
    /\ temps' = SubSeq(temps, 1, Len(temps) - 1)
    /\ snaps' = SubSeq(snaps, 1, Len(snaps) - 1)
    /\ live' = SelectSeq(live, LAMBDA l : l.depth < Len(temps))
    /\ result' = NULL
    /\ UNCHANGED <<first_alloc, resized>>

DoClear ==
    /\ Enter(Called("clear", 0, 0, NULL, 0, NoSnap))
    /\ LET r == sp_arena_clear(arena, blocks)
       IN  /\ arena' = r.a
           /\ blocks' = r.bs
    /\ live' = <<>>
    /\ result' = NULL
    /\ UNCHANGED <<temps, snaps, first_alloc, resized>>

---------------------------------------------------------------------------
(* The sequential specification: any calls, in any order *)

Alloc ==
    /\ ops < MaxOps
    /\ \E size \in AllocSizes : DoAlloc(size)
    /\ UNCHANGED <<scn, freed>>

AllocAligned ==
    /\ ops < MaxOps
    /\ \E size \in AlignedSizes, alignment \in Alignments : DoAllocAligned(size, alignment)
    /\ UNCHANGED <<scn, freed>>

Resize ==
    /\ ops < MaxOps
    /\ \E i \in DOMAIN live, new_size \in ResizeSizes : DoResize(i, new_size)
    /\ UNCHANGED <<scn, freed>>

\* an allocation call with a zero size or with an alignment that is no power of two
AllocInvalid ==
    /\ ops < MaxOps
    /\ \E q \in InvalidRequests : DoAllocAligned(q[1], q[2])
    /\ UNCHANGED <<scn, freed>>

\* sp_arena_resize to a zero new_size
ResizeInvalid ==
    /\ ops < MaxOps
    /\ \E i \in DOMAIN live : DoResize(i, 0)
    /\ UNCHANGED <<scn, freed>>

TempBegin == ops < MaxOps /\ DoTempBegin /\ UNCHANGED <<scn, freed>>

TempEnd == ops < MaxOps /\ DoTempEnd /\ UNCHANGED <<scn, freed>>

Clear == ops < MaxOps /\ DoClear /\ UNCHANGED <<scn, freed>>

Next ==
    \/ Alloc \/ AllocAligned \/ AllocInvalid
    \/ Resize \/ ResizeInvalid
    \/ TempBegin \/ TempEnd \/ Clear

Spec == Init /\ [][Next]_vars

---------------------------------------------------------------------------
(* Calls made through a null handle, by a caller that also holds a live    *)
(* arena.  sp_arena_alloc evaluates arena->config.alignment as an argument *)
(* before sp_arena_alloc_internal can test the handle; reading through a   *)
(* null pointer is undefined: the process faults, or the read yields some  *)
(* value and the call goes on.  sp_arena_calloc and sp_arena_strdup reach  *)
(* the same read through their call of sp_arena_alloc.                     *)

Fault == -1

NullReadOutcomes == {"fault", "value"}

\* sp_arena_alloc_internal(NULL, size, alignment): !arena, so no store and no result
sp_arena_alloc_internal_null(size, alignment) == NULL

\* sp_arena_alloc(NULL, size), given what the read of arena->config.alignment did
sp_arena_alloc_null(size, outcome) ==
    IF outcome = "fault" THEN Fault
    ELSE sp_arena_alloc_internal_null(size, DefaultAlignment)

\* sp_arena_alloc_aligned(NULL, size, alignment): the handle is only tested
sp_arena_alloc_aligned_null(size, alignment) == sp_arena_alloc_internal_null(size, alignment)

\* sp_arena_get_last_error(handle), handle being NULL or the live arena a
sp_arena_get_last_error(handle, a) ==
    IF handle = NULL THEN ERR_INVALID_ARENA ELSE a.last_err

NullCall(op, size, alignment, r) ==
    /\ Enter(Called(op, size, alignment, NULL, 0, NoSnap))
    /\ result' = r
    /\ UNCHANGED <<arena, blocks, live, temps, snaps, first_alloc, resized, scn, freed>>

AllocOnNull ==
    /\ result # Fault
    /\ ops < MaxOps
    /\ \E size \in AllocSizes, outcome \in NullReadOutcomes :
           NullCall("alloc_null", size, 0, sp_arena_alloc_null(size, outcome))

AllocAlignedOnNull ==
    /\ result # Fault
    /\ ops < MaxOps
    /\ \E size \in AlignedSizes, alignment \in Alignments :
           NullCall("alloc_aligned_null", size, alignment,
                    sp_arena_alloc_aligned_null(size, alignment))

\* calls on the live arena, while the process runs
LiveAlloc == result # Fault /\ Alloc

LiveClear == result # Fault /\ Clear

NullNext == AllocOnNull \/ AllocAlignedOnNull \/ LiveAlloc \/ LiveClear

SpecNull == Init /\ [][NullNext]_vars

---------------------------------------------------------------------------
(* The lifetime of an arena: calls in any order, then sp_arena_destroy.    *)
(* The blocks ever acquired are the entries of `blocks`; `freed` records   *)
(* every call of the deallocate capability.                                *)

LifeSizes == {40, 100, Huge}
LifeResizeSizes == {100}

Alive == arena.first # NULL

LifeAlloc ==
    /\ Alive /\ ops < MaxOps
    /\ \E size \in LifeSizes :
           LET needed == NeedsNewBlock(arena, blocks, size, arena.config.alignment)
           IN  \E o \in OutcomesIf(needed, blocks) :
                   /\ DoAllocWith(size, o)
                   /\ freed' = freed \o (IF needed THEN CreateBlockReleases(o[1], o[2])
                                         ELSE <<>>)
    /\ UNCHANGED scn

LifeResize ==
    /\ Alive /\ ops < MaxOps
    /\ \E i \in DOMAIN live, new_size \in LifeResizeSizes :
           LET needed == ResizeNeedsNewBlock(arena, blocks, live[i].ptr, live[i].size,
                                             new_size)
           IN  \E o \in OutcomesIf(needed, blocks) :
                   /\ DoResizeWith(i, new_size, o)
                   /\ freed' = freed \o (IF needed THEN CreateBlockReleases(o[1], o[2])
                                         ELSE <<>>)
    /\ UNCHANGED scn

LifeTempBegin == Alive /\ TempBegin

LifeTempEnd == Alive /\ TempEnd

LifeClear == Alive /\ Clear

\* sp_arena_destroy(arena): the last call made on the handle
Destroy ==
    /\ Alive
    /\ LET r == sp_arena_destroy(arena, blocks)
       IN  /\ arena' = r.a
           /\ freed' = freed \o r.released
    /\ Enter(Called("destroy", 0, 0, NULL, 0, NoSnap))
    /\ live' = <<>>
    /\ temps' = <<>>
    /\ snaps' = <<>>
    /\ result' = NULL
    /\ UNCHANGED <<blocks, first_alloc, resized, scn>>

LifeNext ==
    LifeAlloc \/ LifeResize \/ LifeTempBegin \/ LifeTempEnd \/ LifeClear \/ Destroy

SpecLifetime == Init /\ [][LifeNext]_vars

---------------------------------------------------------------------------
(* Construction as a call: sp_arena_create_with_config on any              *)
(* configuration, then the calls of the lifetime specification.  When the  *)
(* first block cannot be acquired the code writes arena->last_err after    *)
(* free(arena), which is undefined: the call returns NULL or the process   *)
(* faults.                                                                 *)

CreateConfigs ==
    {Config(64, DefaultAlignment, FALSE),
     ConfigWith(Config(64, DefaultAlignment, TRUE), "custom_alloc", "custom_free"),
     Config(64, 0, FALSE),
     Config(64, 24, FALSE),
     Config(0, DefaultAlignment, FALSE),
     ConfigWith(Config(64, DefaultAlignment, FALSE), "custom_alloc", NoCapability),
     ConfigWith(Config(64, DefaultAlignment, FALSE), NoCapability, "custom_free")}

\* the address malloc(sizeof(*arena)) returned
ArenaHandle == SlotBase(0) + MallocAlignment

NotCreated ==
    LET none == ZeroArena(Config(0, 0, FALSE))
    IN  /\ arena = none
        /\ blocks = <<>>
        /\ temps = <<>>
        /\ live = <<>>
        /\ call = [NoCall EXCEPT !.op = "none"]
        /\ result = NULL
        /\ pre = [a |-> none, bs |-> <<>>]
        /\ snaps = <<>>
        /\ first_alloc = NoAlloc
        /\ resized = FALSE
        /\ ops = 0
        /\ scn = <<>>
        /\ freed = <<>>
        /\ mutex = Unlocked
        /\ pc = [t \in Threads |-> "idle"]
        /\ frame = [t \in Threads |-> NoFrame]

\* got_arena: whether malloc(sizeof(*arena)) succeeded; pre keeps the configuration passed
Create ==
    /\ call.op = "none"
    /\ \E config \in CreateConfigs, got_arena \in BOOLEAN, o \in AllocatorOutcomes(<<>>),
          after_free \in NullReadOutcomes :
           LET made == sp_arena_create_with_config(config, o[1], o[2])
               block_failed == ConfigValid(config) /\ ~made.ok
           IN  /\ arena' = IF got_arena THEN made.a ELSE ZeroArena(config)
               /\ blocks' = IF got_arena THEN made.bs ELSE <<>>
               /\ result' = IF got_arena /\ made.ok THEN ArenaHandle
                             ELSE IF got_arena /\ block_failed /\ after_free = "fault"
                                  THEN Fault
                                  ELSE NULL
               /\ freed' = IF got_arena /\ block_failed
                            THEN CreateBlockReleases(o[1], o[2])
                            ELSE <<>>
               /\ pre' = [a |-> ZeroArena(config), bs |-> <<>>]
    /\ call' = Called("create", 0, 0, NULL, 0, NoSnap)
    /\ ops' = ops + 1
    /\ UNCHANGED <<live, temps, snaps, first_alloc, resized, scn, tsvars>>

CreateNext ==
    Create \/ LifeAlloc \/ LifeResize \/ LifeTempBegin \/ LifeTempEnd \/ LifeClear \/ Destroy

SpecCreate == NotCreated /\ [][CreateNext]_vars

---------------------------------------------------------------------------
(* Longer runs on one growable arena: allocations, resizes, checkpoints    *)
(* and clear in any order, so that blocks are filled, rewound, passed over *)
(* by the reuse scan and reused.                                           *)

MaxChainOps == 5        \* public calls per behaviour of this specification

ChainSizes == {40, 100, Huge}
ChainResizeSizes == {100}

ChainInit == InitWith({Config(64, DefaultAlignment, FALSE)})

ChainAlloc ==
    /\ ops < MaxChainOps
    /\ \E size \in ChainSizes : DoAlloc(size)
    /\ UNCHANGED <<scn, freed>>

ChainResize ==
    /\ ops < MaxChainOps
    /\ \E i \in DOMAIN live, new_size \in ChainResizeSizes : DoResize(i, new_size)
    /\ UNCHANGED <<scn, freed>>

ChainTempBegin == ops < MaxChainOps /\ DoTempBegin /\ UNCHANGED <<scn, freed>>

ChainTempEnd == ops < MaxChainOps /\ DoTempEnd /\ UNCHANGED <<scn, freed>>

ChainClear == ops < MaxChainOps /\ DoClear /\ UNCHANGED <<scn, freed>>

ChainNext == ChainAlloc \/ ChainResize \/ ChainTempBegin \/ ChainTempEnd \/ ChainClear

SpecChain == ChainInit /\ [][ChainNext]_vars

---------------------------------------------------------------------------
(* The scenario of temp_arena_example: allocate A, sp_arena_temp_begin,    *)
(* allocate B, sp_arena_temp_end, allocate C, on a default-configuration   *)
(* arena, with sp_arena_alloc throughout.                                  *)

ScenarioSizes == {12, 20, 40, 70000, Huge}

ScenarioInit == InitWith({SP_ARENA_DEFAULT_CONFIG})

Scripted(size) ==
    /\ DoAlloc(size)
    /\ scn' = Append(scn, [ptr |-> result', size |-> size])
    /\ UNCHANGED freed

ScenarioAllocA == ops = 0 /\ \E size \in ScenarioSizes : Scripted(size)

ScenarioBegin == ops = 1 /\ DoTempBegin /\ UNCHANGED <<scn, freed>>

ScenarioAllocB == ops = 2 /\ \E size \in ScenarioSizes : Scripted(size)

ScenarioEnd == ops = 3 /\ DoTempEnd /\ UNCHANGED <<scn, freed>>

ScenarioAllocC == ops = 4 /\ \E size \in ScenarioSizes : Scripted(size)

ScenarioNext ==
    ScenarioAllocA \/ ScenarioBegin \/ ScenarioAllocB \/ ScenarioEnd \/ ScenarioAllocC

SpecScenario == ScenarioInit /\ [][ScenarioNext]_vars

---------------------------------------------------------------------------
(* The threaded build (SP_ARENA_THREAD_SAFE = 1).  A call is a sequence of *)
(* steps: the checks made before the lock, pthread_mutex_lock, the body,   *)
(* pthread_mutex_unlock.  arena->mutex is initialised with default         *)
(* attributes, so locking it again from the thread that holds it is        *)
(* undefined: the call either never returns or returns without the lock    *)
(* having been taken a second time.                                        *)

ThreadSizes == {40, 100}
ThreadAlignments == {64}
ThreadResizeSizes == {20, 100}

Goto(t, label) == pc' = [pc EXCEPT ![t] = label]

\* sp_arena_alloc(arena, size): the checks of sp_arena_alloc_internal pass
TAllocCall(t) ==
    /\ pc[t] = "idle"
    /\ ops < MaxCalls
    /\ \E size \in ThreadSizes :
           frame' = [frame EXCEPT ![t] = [NoFrame EXCEPT !.op = "alloc", !.size = size,
                                                         !.alignment = arena.config.alignment]]
    /\ Goto(t, "alloc_lock")
    /\ ops' = ops + 1
    /\ UNCHANGED <<arena, blocks, live, mutex, seqvars>>

\* sp_arena_alloc_aligned(arena, size, alignment): the checks of sp_arena_alloc_internal pass
TAllocAlignedCall(t) ==
    /\ pc[t] = "idle"
    /\ ops < MaxCalls
    /\ \E size \in ThreadSizes, alignment \in ThreadAlignments :
           frame' = [frame EXCEPT ![t] = [NoFrame EXCEPT !.op = "alloc", !.size = size,
                                                         !.alignment = alignment]]
    /\ Goto(t, "alloc_lock")
    /\ ops' = ops + 1
    /\ UNCHANGED <<arena, blocks, live, mutex, seqvars>>

\* sp_arena_resize(arena, old_ptr, old_size, new_size): the checks before the lock pass
TResizeCall(t) ==
    /\ pc[t] = "idle"
    /\ ops < MaxCalls
    /\ \E i \in DOMAIN live, new_size \in ThreadResizeSizes :
           frame' = [frame EXCEPT ![t] = [NoFrame EXCEPT !.op = "resize", !.size = new_size,
                                                         !.alignment = arena.config.alignment,
                                                         !.old_ptr = live[i].ptr,
                                                         !.old_size = live[i].size]]
    /\ Goto(t, "resize_lock")
    /\ ops' = ops + 1
    /\ resized' = TRUE
    /\ UNCHANGED <<arena, blocks, live, mutex, temps, call, result, pre, snaps, first_alloc, scn, freed>>

\* where each call stands when it is about to take the lock, and where it goes on from there
LockLabels == {"alloc_lock", "resize_lock", "begin_lock", "end_lock", "clear_lock"}

AfterLock(label) ==
    CASE label = "alloc_lock" -> "alloc_load"
      [] label = "resize_lock" -> "resize_body"
      [] label = "begin_lock" -> "begin_body"
      [] label = "end_lock" -> "end_body"
      [] label = "clear_lock" -> "clear_body"

\* a slip: a lock that lets the caller in whoever holds it
TLock_not_exclusive(t) ==
    /\ pc[t] \in LockLabels
    /\ mutex' = t
    /\ Goto(t, AfterLock(pc[t]))
    /\ UNCHANGED <<arena, blocks, live, ops, frame, seqvars>>

\* pthread_mutex_lock on a free mutex
TLock(t) ==
    /\ pc[t] \in LockLabels
    /\ mutex = Unlocked
    /\ mutex' = t
    /\ Goto(t, AfterLock(pc[t]))
    /\ UNCHANGED <<arena, blocks, live, ops, frame, seqvars>>

\* pthread_mutex_lock on a mutex the caller holds: the call never returns
TRelockBlocks(t) ==
    /\ pc[t] \in {"alloc_lock", "resize_lock"}
    /\ mutex = t
    /\ Goto(t, "blocked")
    /\ UNCHANGED <<arena, blocks, live, ops, mutex, frame, seqvars>>

\* pthread_mutex_lock on a mutex the caller holds: the call returns an error, which is ignored
TRelockReturns(t) ==
    /\ pc[t] \in {"alloc_lock", "resize_lock"}
    /\ mutex = t
    /\ Goto(t, AfterLock(pc[t]))
    /\ UNCHANGED <<arena, blocks, live, ops, mutex, frame, seqvars>>

\* which return of sp_arena_alloc_internal a call that holds the lock leaves through
AllocReturnPath(a, bs, size, alignment, memory, rec) ==
    LET block == a.current
        aligned_used == align_forward(bs[block].used, alignment)
    IN  IF Add(aligned_used, size) <= bs[block].size THEN "fit"
        ELSE IF a.config.fixed_size THEN "fixed_full"
        ELSE IF ScanNext(a, bs, bs[block].next, size, alignment).found THEN "reuse"
        ELSE IF sp_arena_create_block(a, bs, size, memory, rec).block = NULL
             THEN "acquire_failed"
             ELSE "new_block"

\* a slip: the return from inside the scan loop leaves without unlocking
UnlocksOnReturn_reuse_keeps_lock(returns) ==
    IF returns = "reuse" THEN 0 ELSE 1

\* the number of pthread_mutex_unlock calls between the work of each path and its return
UnlocksOnReturn(returns) ==
    CASE returns = "fit" -> 1
      [] returns = "fixed_full" -> 1
      [] returns = "reuse" -> 1
      [] returns = "acquire_failed" -> 1
      [] returns = "new_block" -> 1
      [] returns = "temp_begin" -> 1
      [] returns = "temp_end" -> 1
      [] returns = "clear" -> 1

\* sp_arena_alloc_internal after the lock: the reads of the cursor and of the counters
TAllocLoad(t) ==
    /\ pc[t] = "alloc_load"
    /\ frame' = [frame EXCEPT ![t].seen = <<[a |-> arena, bs |-> blocks]>>]
    /\ Goto(t, "alloc_body")
    /\ UNCHANGED <<arena, blocks, live, ops, mutex, seqvars>>

\* the rest of the body of sp_arena_alloc_internal: what it computes from what it read,
\* and the stores of the cursor and of the counters
TAllocBody(t) ==
    /\ pc[t] = "alloc_body"
    /\ LET seen == frame[t].seen[1]
       IN  \E o \in OutcomesIf(NeedsNewBlock(seen.a, seen.bs, frame[t].size,
                                             frame[t].alignment), seen.bs) :
               LET r == sp_arena_alloc_internal(seen.a, seen.bs, frame[t].size,
                                                frame[t].alignment, o[1], o[2])
               IN  /\ arena' = r.a
                   /\ blocks' = r.bs
                   /\ frame' = [frame EXCEPT ![t].ret = r.result, ![t].seen = <<>>,
                                             ![t].returns = AllocReturnPath(
                                                 seen.a, seen.bs, frame[t].size,
                                                 frame[t].alignment, o[1], o[2])]
    /\ Goto(t, "alloc_unlock")
    /\ UNCHANGED <<live, ops, mutex, seqvars>>

\* the return of sp_arena_alloc_internal, with the pthread_mutex_unlock its path makes
TAllocUnlock(t) ==
    /\ pc[t] = "alloc_unlock"
    /\ mutex' = IF UnlocksOnReturn(frame[t].returns) > 0 THEN Unlocked ELSE mutex
    /\ frame' = [frame EXCEPT ![t].unlocks = @ + UnlocksOnReturn(frame[t].returns)]
    /\ IF frame[t].op = "resize"
       THEN Goto(t, "resize_after_alloc") /\ live' = live
       ELSE /\ Goto(t, "idle")
            /\ live' = IF frame[t].ret # NULL
                       THEN Append(live, Allocation(frame[t].ret, frame[t].size))
                       ELSE live
    /\ UNCHANGED <<arena, blocks, ops, seqvars>>

\* the body of sp_arena_resize up to its return or to its call of sp_arena_alloc
TResizeBody(t) ==
    /\ pc[t] = "resize_body"
    /\ LET f == frame[t]
           path == ResizePath(arena, blocks, f.old_ptr, f.old_size, f.size)
           here == ResizeInPlace(arena, blocks, arena.current, f.old_size, f.size)
       IN  /\ frame' = [frame EXCEPT ![t].path = path,
                                     ![t].block = arena.current,
                                     ![t].ret = IF path = "in_place" THEN f.old_ptr ELSE NULL]
           /\ CASE path \in {"copy", "move"} ->
                       Goto(t, "alloc_lock") /\ UNCHANGED <<arena, blocks>>
                [] path = "in_place" ->
                       Goto(t, "resize_unlock") /\ arena' = here.a /\ blocks' = here.bs
                [] OTHER ->
                       /\ Goto(t, "resize_unlock")
                       /\ arena' = [arena EXCEPT !.last_err = ERR_OUT_OF_MEMORY]
                       /\ blocks' = blocks
    /\ UNCHANGED <<live, ops, mutex, seqvars>>

\* sp_arena_resize after sp_arena_alloc has returned: the copy, and the reclaim when moving
TResizeAfterAlloc(t) ==
    /\ pc[t] = "resize_after_alloc"
    /\ LET f == frame[t]
           back == ResizeReclaim(arena, blocks, f.block, f.old_size)
       IN  IF f.path = "move" /\ f.ret # NULL
           THEN arena' = back.a /\ blocks' = back.bs
           ELSE UNCHANGED <<arena, blocks>>
    /\ Goto(t, "resize_unlock")
    /\ UNCHANGED <<live, ops, mutex, frame, seqvars>>

\* pthread_mutex_unlock and the return of sp_arena_resize
TResizeUnlock(t) ==
    /\ pc[t] = "resize_unlock"
    /\ mutex' = Unlocked
    /\ Goto(t, "idle")
    /\ live' = IF frame[t].ret # NULL
               THEN Append(SelectSeq(live, LAMBDA l : l.ptr # frame[t].old_ptr),
                           Allocation(frame[t].ret, frame[t].size))
               ELSE live
    /\ UNCHANGED <<arena, blocks, ops, frame, seqvars>>

ThreadNext ==
    \E t \in Threads :
        \/ TAllocCall(t)
        \/ TAllocAlignedCall(t)
        \/ TResizeCall(t)
        \/ TLock(t)
        \/ TRelockBlocks(t)
        \/ TRelockReturns(t)
        \/ TAllocLoad(t)
        \/ TAllocBody(t)
        \/ TAllocUnlock(t)
        \/ TResizeBody(t)
        \/ TResizeAfterAlloc(t)
        \/ TResizeUnlock(t)

SpecThreads == Init /\ [][ThreadNext]_vars

---------------------------------------------------------------------------
(* The threaded build, for the calls that take the lock once: allocation,  *)
(* sp_arena_temp_begin, sp_arena_temp_end and sp_arena_clear, made by two  *)
(* threads on one arena.  The checkpoints the callers hold are kept in     *)
(* `temps`, innermost last; sp_arena_temp_end is passed the innermost.     *)

\* sp_arena_temp_begin(arena): arena and arena->current are non-null
TBeginCall(t) ==
    /\ pc[t] = "idle"
    /\ ops < MaxCalls
    /\ arena.current # NULL
    /\ frame' = [frame EXCEPT ![t] = [NoFrame EXCEPT !.op = "temp_begin"]]
    /\ Goto(t, "begin_lock")
    /\ ops' = ops + 1
    /\ UNCHANGED <<arena, blocks, live, mutex, seqvars>>

\* the three reads of sp_arena_temp_begin
TBeginBody(t) ==
    /\ pc[t] = "begin_body"
    /\ frame' = [frame EXCEPT ![t].temp = sp_arena_temp_begin(arena, blocks),
                              ![t].returns = "temp_begin"]
    /\ Goto(t, "begin_unlock")
    /\ UNCHANGED <<arena, blocks, live, ops, mutex, seqvars>>

\* the return of sp_arena_temp_begin: the caller now holds the checkpoint
TBeginUnlock(t) ==
    /\ pc[t] = "begin_unlock"
    /\ mutex' = IF UnlocksOnReturn(frame[t].returns) > 0 THEN Unlocked ELSE mutex
    /\ frame' = [frame EXCEPT ![t].unlocks = @ + UnlocksOnReturn(frame[t].returns)]
    /\ temps' = Append(temps, frame[t].temp)
    /\ snaps' = Append(snaps, [current |-> frame[t].temp.block,
                               used |-> frame[t].temp.used,
                               total_used |-> frame[t].temp.total_used,
                               total_allocated |-> arena.total_allocated])
    /\ Goto(t, "idle")
    /\ UNCHANGED <<arena, blocks, live, ops, call, result, pre, first_alloc, resized, scn, freed>>

\* sp_arena_temp_end(temp) of the innermost checkpoint: temp.arena and temp.block are non-null
TEndCall(t) ==
    /\ pc[t] = "idle"
    /\ ops < MaxCalls
    /\ temps # <<>>
    /\ temps[Len(temps)].block # NULL
    /\ frame' = [frame EXCEPT ![t] = [NoFrame EXCEPT !.op = "temp_end",
                                                    !.temp = temps[Len(temps)]]]
    /\ temps' = SubSeq(temps, 1, Len(temps) - 1)
    /\ snaps' = SubSeq(snaps, 1, Len(snaps) - 1)
    /\ Goto(t, "end_lock")
    /\ ops' = ops + 1
    /\ UNCHANGED <<arena, blocks, live, mutex, call, result, pre, first_alloc, resized, scn, freed>>

\* the three stores of sp_arena_temp_end
TEndBody(t) ==
    /\ pc[t] = "end_body"
    /\ LET r == sp_arena_temp_end(arena, blocks, frame[t].temp)
       IN  /\ arena' = r.a
           /\ blocks' = r.bs
    /\ frame' = [frame EXCEPT ![t].returns = "temp_end"]
    /\ Goto(t, "end_unlock")
    /\ UNCHANGED <<live, ops, mutex, seqvars>>

\* the return of sp_arena_temp_end: what was carved inside the scope is given up
TEndUnlock(t) ==
    /\ pc[t] = "end_unlock"
    /\ mutex' = IF UnlocksOnReturn(frame[t].returns) > 0 THEN Unlocked ELSE mutex
    /\ frame' = [frame EXCEPT ![t].unlocks = @ + UnlocksOnReturn(frame[t].returns)]
    /\ live' = SelectSeq(live, LAMBDA l : l.depth <= Len(temps))
    /\ Goto(t, "idle")
    /\ UNCHANGED <<arena, blocks, ops, seqvars>>

\* sp_arena_clear(arena): arena is non-null
TClearCall(t) ==
    /\ pc[t] = "idle"
    /\ ops < MaxCalls
    /\ frame' = [frame EXCEPT ![t] = [NoFrame EXCEPT !.op = "clear"]]
    /\ Goto(t, "clear_lock")
    /\ ops' = ops + 1
    /\ UNCHANGED <<arena, blocks, live, mutex, seqvars>>

\* the loop and the two stores of sp_arena_clear
TClearBody(t) ==
    /\ pc[t] = "clear_body"
    /\ LET r == sp_arena_clear(arena, blocks)
       IN  /\ arena' = r.a
           /\ blocks' = r.bs
    /\ frame' = [frame EXCEPT ![t].returns = "clear"]
    /\ Goto(t, "clear_unlock")
    /\ UNCHANGED <<live, ops, mutex, seqvars>>

\* the return of sp_arena_clear
TClearUnlock(t) ==
    /\ pc[t] = "clear_unlock"
    /\ mutex' = IF UnlocksOnReturn(frame[t].returns) > 0 THEN Unlocked ELSE mutex
    /\ frame' = [frame EXCEPT ![t].unlocks = @ + UnlocksOnReturn(frame[t].returns)]
    /\ live' = <<>>
    /\ Goto(t, "idle")
    /\ UNCHANGED <<arena, blocks, ops, seqvars>>

LockNext ==
    \E t \in Threads :
        \/ TAllocCall(t)
        \/ TAllocAlignedCall(t)
        \/ TBeginCall(t)
        \/ TEndCall(t)
        \/ TClearCall(t)
        \/ TLock(t)
        \/ TAllocLoad(t)
        \/ TAllocBody(t)
        \/ TAllocUnlock(t)
        \/ TBeginBody(t)
        \/ TBeginUnlock(t)
        \/ TEndBody(t)
        \/ TEndUnlock(t)
        \/ TClearBody(t)
        \/ TClearUnlock(t)

SpecLock == Init /\ [][LockNext]_vars

---------------------------------------------------------------------------
(* The variant in src/spar.c.  Its sp_arena_create_block and its           *)
(* sp_arena_alloc_internal differ from those of src/sp_arena.c; its        *)
(* checkpoint and clear functions are the same.  The definitions carry the *)
(* prefix spar_ where the two files use one name.                          *)

\* block_size is rounded up to the page, not min_size
spar_BlockSizeFor(a, min_size) ==
    IF min_size > a.config.block_size
    THEN align_forward(a.config.block_size, PageSize)
    ELSE a.config.block_size

spar_create_block(a, bs, min_size, memory, rec) ==
    LET block_size == spar_BlockSizeFor(a, min_size)
    IN  IF memory = NULL \/ ~rec
        THEN [a |-> [a EXCEPT !.last_err = ERR_OUT_OF_MEMORY], bs |-> bs, block |-> NULL]
        ELSE [a |-> [a EXCEPT !.total_allocated = Add(@, block_size)],
              bs |-> Append(bs, [memory |-> memory, next |-> NULL,
                                 size |-> block_size, used |-> 0]),
              block |-> Len(bs) + 1]

spar_create_with_config(config, memory, rec) ==
    LET zero == ZeroArena(WithDefaultCapabilities(config))
        made == spar_create_block(zero, <<>>, 0, memory, rec)
    IN  IF ~ConfigValid(config) \/ made.block = NULL
        THEN [ok |-> FALSE, a |-> ZeroArena(config), bs |-> <<>>]
        ELSE [ok |-> TRUE,
              a |-> [made.a EXCEPT !.first = made.block, !.current = made.block],
              bs |-> made.bs]

\* the carve every successful path ends with: block->used = aligned_used + size, and so on
spar_Carve(a, bs, block, aligned_used, req_size, size) ==
    [a |-> [a EXCEPT !.total_used = Add(@, req_size)],
     bs |-> [bs EXCEPT ![block].used = Add(aligned_used, size)],
     result |-> bs[block].memory + aligned_used]

\* the branch taken when the current block has a successor
spar_MoveToNext(a, bs, size, alignment, memory, rec) ==
    LET block == bs[a.current].next
        bs1 == [bs EXCEPT ![block].used = 0]
        a1 == [a EXCEPT !.current = block]
        aligned_used == align_forward(bs1[block].used, alignment)
        padding == Sub(aligned_used, bs1[block].used)
        req_size == Add(size, padding)
    IN  IF Add(aligned_used, size) > bs1[block].size
        THEN LET made == spar_create_block(a1, bs1, size, memory, rec)
                 new_block == made.block
             IN  IF new_block = NULL
                 THEN [a |-> [made.a EXCEPT !.last_err = ERR_OUT_OF_MEMORY],
                       bs |-> made.bs, result |-> NULL]
                 ELSE spar_Carve([made.a EXCEPT !.current = new_block],
                                 [made.bs EXCEPT ![new_block].next = made.bs[block].next,
                                                 ![block].next = new_block],
                                 new_block, 0, size, size)
        ELSE spar_Carve(a1, bs1, block, aligned_used, req_size, size)

\* the branch taken when the current block is the last of the chain
spar_AppendBlock(a, bs, size, memory, rec) ==
    LET block == a.current
        made == spar_create_block(a, bs, size, memory, rec)
        new_block == made.block
    IN  IF new_block = NULL
        THEN [a |-> [made.a EXCEPT !.last_err = ERR_OUT_OF_MEMORY],
              bs |-> made.bs, result |-> NULL]
        ELSE spar_Carve([made.a EXCEPT !.current = new_block],
                        [made.bs EXCEPT ![block].next = new_block],
                        new_block, 0, size, size)

\* the handle is non-null; for it, the first test returns without recording an error
spar_alloc_internal(a, bs, size, alignment, memory, rec) ==
    IF a.current = NULL \/ size = 0
    THEN [a |-> a, bs |-> bs, result |-> NULL]
    ELSE IF ~is_power_of_two(alignment)
    THEN [a |-> [a EXCEPT !.last_err = ERR_INVALID_ALIGNMENT], bs |-> bs, result |-> NULL]
    ELSE
    LET block == a.current
        aligned_used == align_forward(bs[block].used, alignment)
    IN  IF Add(aligned_used, size) > bs[block].size /\ a.config.fixed_size
        THEN [a |-> [a EXCEPT !.last_err = ERR_OUT_OF_MEMORY], bs |-> bs, result |-> NULL]
        ELSE IF bs[block].next # NULL
        THEN spar_MoveToNext(a, bs, size, alignment, memory, rec)
        ELSE spar_AppendBlock(a, bs, size, memory, rec)

\* whether a call with this state and these arguments reaches sp_arena_create_block
spar_NeedsNewBlock(a, bs, size, alignment) ==
    /\ a.current # NULL /\ size # 0 /\ is_power_of_two(alignment)
    /\ ~(/\ Add(align_forward(bs[a.current].used, alignment), size) > bs[a.current].size
         /\ a.config.fixed_size)
    /\ \/ bs[a.current].next = NULL
       \/ size > bs[bs[a.current].next].size

spar_alloc(a, bs, size, memory, rec) ==
    spar_alloc_internal(a, bs, size, a.config.alignment, memory, rec)

spar_alloc_aligned(a, bs, size, alignment, memory, rec) ==
    spar_alloc_internal(a, bs, size, alignment, memory, rec)

SparSizes == {20, 40, 5000}
SparRequests == {<<20, 64>>, <<0, 64>>, <<20, 24>>}

\* an arena made by the sp_arena_create_with_config of src/spar.c
SparInit ==
    \E config \in Configs, memory \in AllocatorResults(1) \ {NULL} :
        InitState(spar_create_with_config(config, memory, TRUE))

SparAlloc ==
    /\ ops < MaxOps
    /\ \E size \in SparSizes :
           \E o \in OutcomesIf(spar_NeedsNewBlock(arena, blocks, size,
                                                  arena.config.alignment), blocks) :
               /\ Enter(Called("alloc", size, arena.config.alignment, NULL, 0, NoSnap))
               /\ Returned(spar_alloc(arena, blocks, size, o[1], o[2]))
    /\ UNCHANGED <<temps, snaps, resized, scn, freed>>

SparAllocAligned ==
    /\ ops < MaxOps
    /\ \E q \in SparRequests :
           \E o \in OutcomesIf(spar_NeedsNewBlock(arena, blocks, q[1], q[2]), blocks) :
               /\ Enter(Called("alloc_aligned", q[1], q[2], NULL, 0, NoSnap))
               /\ Returned(spar_alloc_aligned(arena, blocks, q[1], q[2], o[1], o[2]))
    /\ UNCHANGED <<temps, snaps, resized, scn, freed>>

SparTempBegin == ops < MaxOps /\ DoTempBegin /\ UNCHANGED <<scn, freed>>

SparTempEnd == ops < MaxOps /\ DoTempEnd /\ UNCHANGED <<scn, freed>>

SparClear == ops < MaxOps /\ DoClear /\ UNCHANGED <<scn, freed>>

SparNext == SparAlloc \/ SparAllocAligned \/ SparTempBegin \/ SparTempEnd \/ SparClear

SpecSpar == SparInit /\ [][SparNext]_vars

---------------------------------------------------------------------------
(* Vocabulary of the properties *)

AllocOps == {"alloc", "alloc_aligned"}

\* the byte ranges [ptr, ptr + size) of two allocations do not meet
Disjoint(x, y) == x.ptr + x.size <= y.ptr \/ y.ptr + y.size <= x.ptr

\* the range lies inside the buffer of block b
InsideBlock(bs, b, x) ==
    bs[b].memory <= x.ptr /\ x.ptr + x.size <= bs[b].memory + bs[b].size

\* rounding up in the integers, with no wraparound
RoundUp(x, align) == ((x + align - 1) \div align) * align

\* the request fits the current block: rounded offset + size within its capacity
FitsCurrent(a, bs, size, alignment) ==
    RoundUp(bs[a.current].used, alignment) + size <= bs[a.current].size

\* old_ptr is the last allocation carved from the current block
IsMostRecent(a, bs, old_ptr, old_size) ==
    old_ptr + old_size = bs[a.current].memory + bs[a.current].used

\* the last call was a request that does not fit the current block as it was on entry
RequestDidNotFit ==
    \/ /\ call.op \in AllocOps
       /\ call.size # 0 /\ is_power_of_two(call.alignment)
       /\ ~FitsCurrent(pre.a, pre.bs, call.size, call.alignment)
    \/ /\ call.op = "resize"
       /\ call.size # 0
       /\ IF IsMostRecent(pre.a, pre.bs, call.old_ptr, call.old_size)
          THEN pre.bs[pre.a.current].used - call.old_size + call.size
                   > pre.bs[pre.a.current].size
          ELSE ~FitsCurrent(pre.a, pre.bs, call.size, call.alignment)

---------------------------------------------------------------------------
(* C1: over create, successful allocations, clear and LIFO begin/end, the  *)
(* ranges of the live allocations are pairwise disjoint and each lies      *)
(* inside one block's buffer.                                              *)
C1_LiveDisjointInBlocks ==
    ~resized =>
        /\ \A i, j \in DOMAIN live : i # j => Disjoint(live[i], live[j])
        /\ \A i \in DOMAIN live : \E b \in DOMAIN blocks : InsideBlock(blocks, b, live[i])

(* C2: every address a successful sp_arena_alloc_aligned returns is a      *)
(* multiple of the requested alignment.                                    *)
C2_ResultAligned ==
    (call.op = "alloc_aligned" /\ result # NULL) => result % call.alignment = 0

(* C3: sp_arena_temp_end puts current, that block's used and total_used    *)
(* back to what they were at the matching sp_arena_temp_begin; begin       *)
(* directly followed by end leaves total_allocated and every field of the  *)
(* arena as they were.                                                     *)
C3_TempEndRestores ==
    call.op = "temp_end" =>
        /\ arena.current = call.snap.current
        /\ blocks[arena.current].used = call.snap.used
        /\ arena.total_used = call.snap.total_used
        /\ call.prev = "temp_begin" =>
               /\ arena = pre.a
               /\ blocks = pre.bs
               /\ arena.total_allocated = call.snap.total_allocated

C3_Witness ==
    /\ call.op = "temp_end"
    /\ temps # <<>>
    /\ pre.a.current # arena.current
    /\ pre.a.total_used # arena.total_used

(* C4: a fixed_size arena never holds more than its initial block, and a   *)
(* request that does not fit the current block returns NULL with           *)
(* OUT_OF_MEMORY and changes nothing else.                                 *)
C4_FixedArenaRefuses ==
    arena.config.fixed_size =>
        /\ Len(blocks) = 1
        /\ RequestDidNotFit =>
               /\ result = NULL
               /\ arena = [pre.a EXCEPT !.last_err = ERR_OUT_OF_MEMORY]
               /\ blocks = pre.bs

(* C5: every block has used <= size. *)
C5_UsedWithinSize ==
    \A b \in DOMAIN blocks : blocks[b].used <= blocks[b].size

(* C6: total_used <= total_allocated. *)
C6_TotalUsedWithinAllocated ==
    arena.total_used <= arena.total_allocated

(* C8: sp_arena_clear zeroes every block's used, sets current = first and  *)
(* total_used = 0, and leaves total_allocated, the chain, the block sizes, *)
(* the configuration and last_err as they were.                            *)
C8_ClearFrame ==
    call.op = "clear" =>
        /\ \A b \in DOMAIN blocks : blocks[b].used = 0
        /\ arena.current = arena.first
        /\ arena.total_used = 0
        /\ arena = [pre.a EXCEPT !.current = pre.a.first, !.total_used = 0]
        /\ DOMAIN blocks = DOMAIN pre.bs
        /\ \A b \in DOMAIN blocks : blocks[b] = [pre.bs[b] EXCEPT !.used = 0]

C8_Witness ==
    /\ call.op = "clear"
    /\ pre.a.current # pre.a.first
    /\ pre.a.last_err # ERR_NONE
    /\ \E b \in DOMAIN pre.bs : b # pre.a.first /\ pre.bs[b].used > 0

ScenarioDone ==
    /\ ops = 5
    /\ Len(scn) = 3
    /\ \A i \in 1..3 : scn[i].ptr # NULL

C7_RewindReuseExact ==
    ScenarioDone =>
        /\ scn[3].ptr = scn[2].ptr
        /\ Disjoint(scn[1], scn[3])
        /\ arena.total_used = scn[1].size + scn[3].size

(* C7 as amended: when A, B and C are all carved from one block, C starts  *)
(* where B was carved and does not touch A, and total_used is size(A)      *)
(* rounded up to the configured alignment plus size(C).                    *)
C7_RewindReusePadded ==
    (/\ ScenarioDone
     /\ \E b \in DOMAIN blocks : \A i \in 1..3 : InsideBlock(blocks, b, scn[i])) =>
        /\ scn[3].ptr = scn[2].ptr
        /\ Disjoint(scn[1], scn[3])
        /\ arena.total_used = RoundUp(scn[1].size, arena.config.alignment) + scn[3].size

C7_Witness ==
    /\ ScenarioDone
    /\ scn[1].size = 20 /\ scn[2].size = 40 /\ scn[3].size = 12
    /\ \E b \in DOMAIN blocks : \A i \in 1..3 : InsideBlock(blocks, b, scn[i])
    /\ arena.total_used = 36

(* C10: with the lock compiled in, every call of sp_arena_resize runs to   *)
(* completion and returns: no thread stays inside it forever.              *)
C10_ResizeReturns ==
    \A t \in Threads : frame[t].op = "resize" => pc[t] # "blocked"

(* C11: when threads call sp_arena_alloc and sp_arena_alloc_aligned        *)
(* concurrently and all calls have returned, the regions handed out are    *)
(* pairwise disjoint and total_used is the sum of size + padding over the  *)
(* successful calls: no update of used, current or total_used is lost.     *)
BlockOf(x) == CHOOSE b \in DOMAIN blocks : InsideBlock(blocks, b, x)

\* where the region before x in its block ends: x.ptr minus this is the padding before x
PrevEnd(x) ==
    LET b == BlockOf(x)
        ends == {live[j].ptr + live[j].size :
                     j \in {k \in DOMAIN live : /\ InsideBlock(blocks, b, live[k])
                                                /\ live[k].ptr < x.ptr}}
    IN  IF ends = {} THEN blocks[b].memory
        ELSE CHOOSE e \in ends : \A f \in ends : f <= e

RECURSIVE PaddedSum(_)
PaddedSum(n) ==
    IF n = 0 THEN 0
    ELSE PaddedSum(n - 1) + live[n].size + (live[n].ptr - PrevEnd(live[n]))

AllReturned == \A t \in Threads : pc[t] = "idle"

C11_ConcurrentAllocsSerialize ==
    (AllReturned /\ ~resized) =>
        /\ \A i, j \in DOMAIN live : i # j => Disjoint(live[i], live[j])
        /\ \A i \in DOMAIN live : \E b \in DOMAIN blocks : InsideBlock(blocks, b, live[i])
        /\ arena.total_used = PaddedSum(Len(live))

\* both threads have made successful calls, one of them carved after padding
C11_Witness ==
    /\ AllReturned /\ ~resized
    /\ Len(live) = 3
    /\ arena.total_used > live[1].size + live[2].size + live[3].size
    /\ frame[1].op = "alloc" /\ frame[2].op = "alloc"
    /\ frame[1].ret # NULL /\ frame[2].ret # NULL

(* C12: sp_arena_resize of the most recent allocation of the current block *)
(* to a new_size > 0 that fits the block returns the same address and changes  *)
(* the block's used and total_used by exactly new_size - old_size, leaving *)
(* current and total_allocated as they were.                               *)
ResizeOfMostRecent ==
    /\ call.op = "resize"
    /\ call.size # 0
    /\ IsMostRecent(pre.a, pre.bs, call.old_ptr, call.old_size)

FitsInPlace ==
    pre.bs[pre.a.current].used - call.old_size + call.size <= pre.bs[pre.a.current].size

ResizeByCopy ==
    /\ call.op = "resize"
    /\ call.size # 0
    /\ ~IsMostRecent(pre.a, pre.bs, call.old_ptr, call.old_size)
    /\ result # NULL

OldRegion == [ptr |-> call.old_ptr, size |-> call.old_size]

NewRegion == [ptr |-> result, size |-> call.size]

\* the bytes skipped before the region just returned, in the block it was carved from
PaddingOfResult ==
    IF arena.current \in DOMAIN pre.bs
    THEN result - (pre.bs[arena.current].memory + pre.bs[arena.current].used)
    ELSE 0

C13_ResizeCopyFresh ==
    ResizeByCopy =>
        /\ result # call.old_ptr
        /\ Disjoint(NewRegion, OldRegion)
        /\ \A i \in 1..(Len(live) - 1) : Disjoint(NewRegion, live[i])
        /\ arena.total_used - pre.a.total_used = call.size + PaddingOfResult
        /\ \A b \in DOMAIN pre.bs : blocks[b].used >= pre.bs[b].used

(* C14 as stated: on a growable arena, sp_arena_resize of the most recent   *)
(* allocation to a new_size that does not fit the current block returns a  *)
(* region in another block, takes old_size off the old block's used, and   *)
(* changes total_used by new_size - old_size in all; when the fresh        *)
(* allocation fails, used and total_used stay as they were.                *)
ResizeByMove ==
    /\ ResizeOfMostRecent
    /\ ~FitsInPlace
    /\ ~pre.a.config.fixed_size

C14_ResizeMoveReclaims ==
    ResizeByMove =>
        IF result # NULL
        THEN /\ \E b \in DOMAIN blocks : b # pre.a.current /\ InsideBlock(blocks, b, NewRegion)
             /\ blocks[pre.a.current].used = pre.bs[pre.a.current].used - call.old_size
             /\ arena.total_used - pre.a.total_used = call.size - call.old_size
        ELSE /\ blocks[pre.a.current].used = pre.bs[pre.a.current].used
             /\ arena.total_used = pre.a.total_used

(* C15: an allocation call with size = 0 returns NULL with last_err =      *)
(* INVALID_SIZE; one with size > 0 and an alignment that is zero or no     *)
(* power of two returns NULL with last_err = INVALID_ALIGNMENT; both leave *)
(* every block's used, current, total_used and total_allocated unchanged.  *)
IsPowerOfTwo(n) == \E k \in 0..SizeBits : n = 2 ^ k

RefusedWith(err) ==
    /\ result = NULL
    /\ arena = [pre.a EXCEPT !.last_err = err]
    /\ blocks = pre.bs

C15_InvalidRequestRefused ==
    call.op \in AllocOps =>
        /\ call.size = 0 => RefusedWith(ERR_INVALID_SIZE)
        /\ (call.size > 0 /\ ~IsPowerOfTwo(call.alignment)) =>
               RefusedWith(ERR_INVALID_ALIGNMENT)

\* a refused alignment on an arena that is in use and holds another error
C15_Witness ==
    /\ call.op \in AllocOps
    /\ call.size > 0 /\ call.alignment = 24
    /\ pre.a.last_err = ERR_INVALID_SIZE
    /\ pre.a.total_used > 0
    /\ arena.last_err = ERR_INVALID_ALIGNMENT

(* C16: sp_arena_alloc (and sp_arena_calloc, sp_arena_strdup through it)   *)
(* on a null handle returns NULL without reading through the handle, and   *)
(* sp_arena_get_last_error on that handle reports INVALID_ARENA.           *)
C16_NullHandleRefused ==
    call.op = "alloc_null" =>
        /\ result = NULL
        /\ sp_arena_get_last_error(NULL, arena) = ERR_INVALID_ARENA

(* C17: last_err is the kind recorded by the most recent failing call, and *)
(* NONE while no call has failed: a failing alloc or resize overwrites it  *)
(* with its own kind, and no successful alloc, resize, begin, end or clear *)
(* changes it.                                                             *)
FallibleOps == AllocOps \cup {"resize"}

\* the kind a failing call records, from its arguments alone
KindOfFailure ==
    IF call.size = 0 THEN ERR_INVALID_SIZE
    ELSE IF call.op \in AllocOps /\ ~IsPowerOfTwo(call.alignment) THEN ERR_INVALID_ALIGNMENT
    ELSE ERR_OUT_OF_MEMORY

CallFailed == call.op \in FallibleOps /\ result = NULL

C17_LastErrorSticky ==
    /\ call.op = "create" => arena.last_err = ERR_NONE
    /\ CallFailed => arena.last_err = KindOfFailure
    /\ (call.op # "create" /\ ~CallFailed) => arena.last_err = pre.a.last_err

\* a success that acquired a block while an earlier error was on record
C17_Witness ==
    /\ call.op \in FallibleOps /\ result # NULL
    /\ Len(blocks) > Len(pre.bs)
    /\ pre.a.last_err \in {ERR_INVALID_SIZE, ERR_INVALID_ALIGNMENT, ERR_OUT_OF_MEMORY}
    /\ arena.last_err = pre.a.last_err

(* C18 as stated: sp_arena_create_block(arena, min_size) makes a block of  *)
(* size block_size when min_size <= block_size and of min_size rounded up  *)
(* to the next multiple of 4096 otherwise, with used = 0 and next = NULL,  *)
(* and adds exactly that size to total_allocated; an allocation larger     *)
(* than block_size that acquires a block makes total_allocated grow by at  *)
(* least the requested size; when an acquisition fails total_allocated is  *)
(* unchanged and last_err = OUT_OF_MEMORY.                                 *)
SizeOfNewBlock(a, min_size) ==
    IF min_size <= a.config.block_size THEN a.config.block_size
    ELSE RoundUp(min_size, PageSize)

CreateBlockAsStated(a, bs, min_size) ==
    LET made == sp_arena_create_block(a, bs, min_size, SlotBase(Len(bs) + 1), TRUE)
        new_block == made.bs[made.block]
    IN  /\ made.block # NULL
        /\ new_block.size = SizeOfNewBlock(a, min_size)
        /\ new_block.used = 0
        /\ new_block.next = NULL
        /\ made.a.total_allocated - a.total_allocated = SizeOfNewBlock(a, min_size)

CreateBlockFailsClean(a, bs, min_size) ==
    \A o \in {<<NULL, TRUE>>, <<SlotBase(Len(bs) + 1), FALSE>>} :
        LET made == sp_arena_create_block(a, bs, min_size, o[1], o[2])
        IN  /\ made.block = NULL
            /\ made.bs = bs
            /\ made.a = [a EXCEPT !.last_err = ERR_OUT_OF_MEMORY]

\* the last call reached sp_arena_create_block
ReachedCreateBlock ==
    \/ call.op \in AllocOps /\ NeedsNewBlock(pre.a, pre.bs, call.size, call.alignment)
    \/ /\ call.op = "resize"
       /\ ResizeNeedsNewBlock(pre.a, pre.bs, call.old_ptr, call.old_size, call.size)

AcquiredBlock == call.op \in FallibleOps /\ Len(blocks) > Len(pre.bs)

C18_CreateBlockSize ==
    /\ ReachedCreateBlock =>
           /\ CreateBlockAsStated(pre.a, pre.bs, call.size)
           /\ CreateBlockFailsClean(pre.a, pre.bs, call.size)
           /\ result = NULL =>
                  /\ arena.total_allocated = pre.a.total_allocated
                  /\ arena.last_err = ERR_OUT_OF_MEMORY
    /\ AcquiredBlock =>
           /\ result # NULL
           /\ blocks[Len(blocks)].size = SizeOfNewBlock(pre.a, call.size)
           /\ arena.total_allocated - pre.a.total_allocated = blocks[Len(blocks)].size
           /\ arena.total_allocated - pre.a.total_allocated >= call.size

(* C19: after sp_arena_destroy every block ever acquired has had its       *)
(* buffer and its record passed to the deallocate capability exactly once  *)
(* (none is leaked for being unreachable from first, none released twice), *)
(* and before sp_arena_destroy no block has been released.                 *)
TimesReleased(block, what) ==
    Cardinality({k \in DOMAIN freed : freed[k] = Released(block, what)})

C19_DestroyReleasesAll ==
    IF call.op = "destroy"
    THEN \A b \in DOMAIN blocks :
             TimesReleased(b, "memory") = 1 /\ TimesReleased(b, "record") = 1
    ELSE \A k \in DOMAIN freed : freed[k].block = NULL

\* destroy of an arena whose chain was extended in the middle, after a failed acquisition
C19_Witness ==
    /\ call.op = "destroy"
    /\ Len(blocks) = 3
    /\ pre.bs[pre.a.first].next = 3
    /\ pre.a.current # pre.a.first
    /\ \E k \in DOMAIN freed : freed[k].block = NULL

(* C20: sp_arena_create_with_config produces no arena when alignment is    *)
(* zero or no power of two, when block_size is zero, or when exactly one   *)
(* of allocator and deallocator is supplied; otherwise, when the first     *)
(* block can be acquired, it returns an arena with exactly one block,      *)
(* first = current = that block, used = 0, total_used = 0,                 *)
(* total_allocated = block_size and last_err = NONE.                       *)
JustCreated == call.op = "create" /\ call.prev = "none"

ConfigRefused(config) ==
    \/ ~IsPowerOfTwo(config.alignment)
    \/ config.block_size = 0
    \/ (config.allocator = NoCapability) # (config.deallocator = NoCapability)

FreshArena(a, bs, config) ==
    /\ Len(bs) = 1
    /\ a.first = 1 /\ a.current = 1
    /\ bs[1].used = 0 /\ bs[1].next = NULL /\ bs[1].size = config.block_size
    /\ a.total_used = 0
    /\ a.total_allocated = config.block_size
    /\ a.last_err = ERR_NONE

C20_CreateValidates ==
    JustCreated =>
        LET config == pre.a.config
        IN  IF ConfigRefused(config)
            THEN /\ result = NULL
                 /\ blocks = <<>>
                 /\ \A o \in AllocatorOutcomes(<<>>) :
                        ~sp_arena_create_with_config(config, o[1], o[2]).ok
            ELSE /\ result = ArenaHandle => FreshArena(arena, blocks, config)
                 /\ \A memory \in AllocatorResults(1) \ {NULL} :
                        LET made == sp_arena_create_with_config(config, memory, TRUE)
                        IN  made.ok /\ FreshArena(made.a, made.bs, config)

\* an arena made from a configuration that names its own capabilities
C20_Witness ==
    /\ JustCreated
    /\ result = ArenaHandle
    /\ pre.a.config.allocator = "custom_alloc"
    /\ arena.config.fixed_size

---------------------------------------------------------------------------
(* The chain of blocks *)

\* the blocks met by following next from `block`, in order; the walk gives up after n steps
RECURSIVE ChainFrom(_, _, _)
ChainFrom(bs, block, n) ==
    IF block = NULL \/ n = 0 THEN <<>>
    ELSE <<block>> \o ChainFrom(bs, bs[block].next, n - 1)

Chain(a, bs) == ChainFrom(bs, a.first, Len(bs) + 1)

Members(seq) == {seq[i] : i \in DOMAIN seq}

\* the blocks strictly after `block` in the chain
After(bs, block) == Members(ChainFrom(bs, bs[block].next, Len(bs) + 1))

(* C21 as stated: when an allocation does not fit the current block and    *)
(* the reuse scan finds a suitable later block, that block becomes current *)
(* and the region is carved from offset 0 of that block.                   *)
ServedByReuse ==
    /\ call.op \in AllocOps
    /\ result # NULL
    /\ Len(blocks) = Len(pre.bs)
    /\ arena.current # pre.a.current

RoundUpSizeT(x, align) == RoundUp(x, align) % SizeMod

MeetsBlock(bs, b, x) ==
    x.ptr < bs[b].memory + bs[b].size /\ bs[b].memory < x.ptr + x.size

\* the blocks the scan of the last call passed over and reset
ResetByScan ==
    IF call.op \in FallibleOps
    THEN {b \in After(pre.bs, pre.a.current) :
              b # arena.current /\ pre.bs[b].used > 0 /\ blocks[b].used = 0}
    ELSE {}

\* what the caller held when the last call was entered and still holds
HeldAcrossCall ==
    IF call.op = "resize" THEN Append(live, [ptr |-> call.old_ptr, size |-> call.old_size,
                                             depth |-> 0])
    ELSE live

C22_LaterBlocksHoldNothingLive ==
    /\ \A b \in After(blocks, arena.current) :
           \A i \in DOMAIN live : ~MeetsBlock(blocks, b, live[i])
    /\ \A b \in ResetByScan :
           \A i \in DOMAIN HeldAcrossCall : ~MeetsBlock(blocks, b, HeldAcrossCall[i])

\* the scan has reset a block that held rewound data, while the caller holds live regions
C22_Witness ==
    /\ \E b \in ResetByScan : pre.bs[b].used <= pre.bs[b].size
    /\ live # <<>>
    /\ \A i \in DOMAIN live : live[i].size < Huge
    /\ After(blocks, arena.current) # {}

(* C23: an allocation is carved from the current or a reused block only if *)
(* rounded offset + size, computed without wraparound, is within that      *)
(* block's size; for every size of the size_t range a request that exceeds *)
(* the remaining capacity is never served from that block and makes        *)
(* neither that block's used nor total_used smaller than before the call.  *)
ServedFromExistingBlock ==
    /\ call.op \in AllocOps
    /\ result # NULL
    /\ Len(blocks) = Len(pre.bs)

C23_NoWrapInFitTest ==
    /\ ServedFromExistingBlock =>
           RoundUp(pre.bs[arena.current].used, call.alignment) + call.size
               <= pre.bs[arena.current].size
    /\ (call.op \in AllocOps /\ RequestDidNotFit) =>
           /\ result # NULL => arena.current # pre.a.current
           /\ blocks[pre.a.current].used >= pre.bs[pre.a.current].used
           /\ arena.total_used >= pre.a.total_used

(* C24: in a live arena total_allocated is the sum of the sizes of the     *)
(* blocks reachable from first via next, the chain is acyclic, and         *)
(* total_allocated never decreases; a newly acquired block is linked       *)
(* immediately after the block that was current, and every block linked    *)
(* before stays in the chain.                                              *)
RECURSIVE SumOfSizes(_, _)
SumOfSizes(bs, chain) ==
    IF chain = <<>> THEN 0
    ELSE bs[Head(chain)].size + SumOfSizes(bs, Tail(chain))

\* the walk from first ends at NULL without meeting a block twice
Acyclic(a, bs) ==
    LET chain == Chain(a, bs)
    IN  /\ Len(chain) <= Len(bs)
        /\ \A i, j \in DOMAIN chain : i # j => chain[i] # chain[j]

\* seq with new put right after the entry equal to x
InsertAfter(seq, x, new) ==
    LET k == CHOOSE i \in DOMAIN seq : seq[i] = x
    IN  SubSeq(seq, 1, k) \o <<new>> \o SubSeq(seq, k + 1, Len(seq))

C24_TotalAllocatedIsChainSum ==
    /\ Acyclic(arena, blocks)
    /\ arena.total_allocated = SumOfSizes(blocks, Chain(arena, blocks))
    /\ arena.total_allocated >= pre.a.total_allocated
    /\ IF AcquiredBlock
       THEN Chain(arena, blocks)
                = InsertAfter(Chain(pre.a, pre.bs), pre.a.current, Len(blocks))
       ELSE Chain(arena, blocks) = Chain(pre.a, pre.bs)

\* a block acquired while the current block already had a successor
C24_Witness ==
    /\ AcquiredBlock
    /\ pre.bs[pre.a.current].next # NULL
    /\ Len(Chain(arena, blocks)) = 3
    /\ blocks[arena.current].next # NULL
    /\ \A b \in DOMAIN blocks : blocks[b].size > 0

(* C25: in every state of a live arena current is non-null and is one of   *)
(* the blocks reachable from first, and first is never reassigned, over    *)
(* allocations, resizes, clear and correctly nested begin/end.             *)
C25_CurrentInChain ==
    /\ arena.current # NULL
    /\ arena.current \in Members(Chain(arena, blocks))
    /\ arena.first = pre.a.first
    /\ arena.first # NULL

\* a rewind that put the cursor back on a block in the middle of the chain
C25_Witness ==
    /\ call.op = "temp_end"
    /\ arena.current # pre.a.current
    /\ arena.current # arena.first
    /\ blocks[arena.current].next # NULL
    /\ \A b \in DOMAIN blocks : blocks[b].size > 0

(* C26: a failed allocation on a growable arena (the allocate capability   *)
(* returns no memory for the buffer or for the block record) leaves        *)
(* current, the used offset of current and of every block before it,       *)
(* total_used, total_allocated and the chain unchanged; only last_err and  *)
(* the used offsets of blocks after current, reset by the scan, may differ.*)
AcquisitionFailed ==
    /\ ReachedCreateBlock
    /\ result = NULL

C26_FailedAllocationFrame ==
    AcquisitionFailed =>
        /\ arena = [pre.a EXCEPT !.last_err = arena.last_err]
        /\ arena.last_err = ERR_OUT_OF_MEMORY
        /\ DOMAIN blocks = DOMAIN pre.bs
        /\ Chain(arena, blocks) = Chain(pre.a, pre.bs)
        /\ \A b \in DOMAIN blocks :
               \/ blocks[b] = pre.bs[b]
               \/ /\ b \in After(pre.bs, pre.a.current)
                  /\ blocks[b] = [pre.bs[b] EXCEPT !.used = 0]

\* a failure after the scan has passed over a block that held rewound data
C26_Witness ==
    /\ AcquisitionFailed
    /\ ResetByScan # {}
    /\ pre.a.total_used > 0
    /\ pre.a.last_err = ERR_NONE
    /\ \A b \in DOMAIN blocks : blocks[b].size > 0

(* C27: with the lock compiled in, each of sp_arena_alloc_internal,        *)
(* sp_arena_temp_begin, sp_arena_temp_end and sp_arena_clear releases the  *)
(* lock exactly once on every return path reached after acquiring it       *)
(* (success, fixed-size exhaustion, reuse of a later block, acquisition    *)
(* failure), so the lock is free whenever none of these calls is in        *)
(* progress.                                                               *)
\* where a call stands while it holds the lock
HoldingLabels ==
    {"alloc_load", "alloc_body", "alloc_unlock", "begin_body", "begin_unlock",
     "end_body", "end_unlock", "clear_body", "clear_unlock"}

HasReturned(t) == pc[t] = "idle" /\ frame[t].op # "none"

C29_SparFixedNeverGrows ==
    arena.config.fixed_size =>
        /\ Len(blocks) = 1
        /\ call.op \in AllocOps =>
               /\ Len(blocks) = Len(pre.bs)
               /\ arena.total_allocated = pre.a.total_allocated

(* C30: in the spar.c variant every block has used <= size after every     *)
(* successful allocation; for a request larger than the configured         *)
(* block_size the block that sp_arena_create_block(arena, size) returns    *)
(* holds at least size bytes, and the region [0, size) is carved from it.  *)
C30_SparUsedWithinSize ==
    (call.op \in AllocOps /\ result # NULL) =>
        /\ \A b \in DOMAIN blocks : blocks[b].used <= blocks[b].size
        /\ (call.size > arena.config.block_size /\ Len(blocks) > Len(pre.bs)) =>
               /\ blocks[Len(blocks)].size >= call.size
               /\ result = blocks[Len(blocks)].memory
               /\ blocks[Len(blocks)].used = call.size

====
